---- MODULE Spec2Model ----
(***************************************************************************)
(* Model of the cli_template repository: main.py (an argparse parser with  *)
(* positionals, variadic options, a flag, a choice and the parse_size      *)
(* converter, parsed into the FileProcessorNamespace class) and            *)
(* validators.py (the file/directory converters and their parser).         *)
(*                                                                         *)
(* Strings that the code slices or inspects are sequences of one-character *)
(* strings (Chars); a token of the command line is named by its text.      *)
(* Python values of differing types are tagged records: PyStr(s), PyInt(n) *)
(* and so on, and None.                                                    *)
(***************************************************************************)
EXTENDS Integers, Sequences, FiniteSets, TLC

VARIABLES
    build,                  \* which argparse the interpreter ships (see Builds)
    argv,                   \* sys.argv[1:] of the current call of main.py's parser
    FileProcessorNamespace, \* attributes of the class object main.py parses into
    pargs,                  \* outcome of the last main.py setup_parser() call
    repeated,               \* the last call had the same argv as the call before it
    size_str,               \* argument of a direct parse_size() call
    size_out,               \* its outcome
    fs,                     \* filesystem: path -> "missing" | "file" | "dir" | "other"
    vargv,                  \* sys.argv[1:] of validators.py
    vpargs                  \* outcome of validators.py

vars == <<build, argv, FileProcessorNamespace, pargs, repeated,
          size_str, size_out, fs, vargv, vpargs>>

-----------------------------------------------------------------------------
(* Bounds of the model *)

MaxLen == 4         \* tokens on main.py's command line (one invocation)
MaxCallLen == 2     \* tokens per call when setup_parser() is called repeatedly
MaxSizeLen == 4     \* characters of a string given to parse_size directly
MaxVLen == 3        \* tokens on validators.py's command line

SeqsUpTo(S, n) == UNION {[1..k -> S] : k \in 0..n}

-----------------------------------------------------------------------------
(* Python values *)

None == [none |-> TRUE]
PyStr(s) == [str |-> s]
PyInt(n) == [int |-> n]
PyList(l) == [list |-> l]
PyBool(b) == [bool |-> b]

-----------------------------------------------------------------------------
(* Text of the tokens and strings the model uses *)

Chars(tok) ==
    CASE tok = "a" -> <<"a">>
      [] tok = "b" -> <<"b">>
      [] tok = "auto" -> <<"a", "u", "t", "o">>
      [] tok = "manual" -> <<"m", "a", "n", "u", "a", "l">>
      [] tok = "500KB" -> <<"5", "0", "0", "K", "B">>
      [] tok = "1MB" -> <<"1", "M", "B">>
      [] tok = "10B" -> <<"1", "0", "B">>
      [] tok = "5XB" -> <<"5", "X", "B">>
      [] tok = "5g" -> <<"5", "g">>
      [] tok = "default_value" -> <<"d", "e", "f", "a", "u", "l", "t", "_", "v", "a", "l", "u", "e">>
      [] tok = "--files" -> <<"-", "-", "f", "i", "l", "e", "s">>
      [] tok = "--required-files" -> <<"-", "-", "r", "e", "q", "u", "i", "r", "e", "d", "-", "f", "i", "l", "e", "s">>
      [] tok = "-v" -> <<"-", "v">>
      [] tok = "--verbose" -> <<"-", "-", "v", "e", "r", "b", "o", "s", "e">>
      [] tok = "-m" -> <<"-", "m">>
      [] tok = "--mode" -> <<"-", "-", "m", "o", "d", "e">>
      [] tok = "-s" -> <<"-", "s">>
      [] tok = "--size" -> <<"-", "-", "s", "i", "z", "e">>
      [] tok = "-h" -> <<"-", "h">>
      [] tok = "--help" -> <<"-", "-", "h", "e", "l", "p">>
      [] tok = "-x" -> <<"-", "x">>
      [] tok = "d" -> <<"d">>
      [] tok = "f" -> <<"f">>
      [] tok = "g" -> <<"g">>
      [] tok = "n" -> <<"n">>

Digits == {"0", "1", "2", "3", "4", "5", "6", "7", "8", "9"}

DigitVal(c) ==
    CASE c = "0" -> 0 [] c = "1" -> 1 [] c = "2" -> 2 [] c = "3" -> 3
      [] c = "4" -> 4 [] c = "5" -> 5 [] c = "6" -> 6 [] c = "7" -> 7
      [] c = "8" -> 8 [] c = "9" -> 9

\* str.upper() on one character
Upper(c) ==
    CASE c = "b" -> "B" [] c = "k" -> "K" [] c = "m" -> "M" [] c = "g" -> "G"
      [] c = "a" -> "A" [] c = "u" -> "U" [] c = "t" -> "T" [] c = "o" -> "O"
      [] c = "n" -> "N" [] c = "l" -> "L" [] c = "x" -> "X"
      [] OTHER -> c

upper(s) == [i \in 1..Len(s) |-> Upper(s[i])]

\* str.strip(): leading and trailing whitespace removed
RECURSIVE strip(_)
strip(s) ==
    IF s = <<>> THEN s
    ELSE IF Head(s) = " " THEN strip(Tail(s))
    ELSE IF s[Len(s)] = " " THEN strip(SubSeq(s, 1, Len(s) - 1))
    ELSE s

-----------------------------------------------------------------------------
(* float(): over the characters of the model (digits, ".", blanks and      *)
(* letters that begin no float literal) the accepted strings are           *)
(* digits [ "." digits ] with at least one digit, blanks stripped.  The    *)
(* value is the exact rational num / den.                                  *)

RECURSIVE Pow10(_)
Pow10(k) == IF k = 0 THEN 1 ELSE 10 * Pow10(k - 1)

RECURSIVE DigitsValue(_)
DigitsValue(s) ==
    IF s = <<>> THEN 0 ELSE 10 * DigitsValue(SubSeq(s, 1, Len(s) - 1)) + DigitVal(s[Len(s)])

float(s0) ==
    LET s == strip(s0)
        dots == {i \in 1..Len(s) : s[i] = "."}
        digs == SelectSeq(s, LAMBDA c : c \in Digits)
    IN  IF /\ \A i \in 1..Len(s) : s[i] \in Digits \cup {"."}
           /\ Cardinality(dots) <= 1
           /\ digs # <<>>
        THEN [ok |-> TRUE,
              num |-> DigitsValue(digs),
              den |-> IF dots = {} THEN 1
                      ELSE Pow10(Len(s) - (CHOOSE i \in dots : TRUE))]
        ELSE [ok |-> FALSE, raises |-> "ValueError"]

-----------------------------------------------------------------------------
(* main.py: parse_size *)

units ==
    [key \in {<<"B">>, <<"K", "B">>, <<"M", "B">>, <<"G", "B">>} |->
        CASE key = <<"B">> -> 1
          [] key = <<"K", "B">> -> 1024
          [] key = <<"M", "B">> -> 1024 * 1024
          [] key = <<"G", "B">> -> 1024 * 1024 * 1024]

\* size_str[:-2] and size_str[-2:]
AllButLastTwo(s) == SubSeq(s, 1, Len(s) - 2)
LastTwo(s) == SubSeq(s, IF Len(s) > 2 THEN Len(s) - 1 ELSE 1, Len(s))

parse_size(s) ==
    LET size == float(strip(AllButLastTwo(s)))
        unit == upper(LastTwo(s))
    IN  IF ~size.ok THEN [ok |-> FALSE, raises |-> "ValueError"]
        ELSE IF unit \notin DOMAIN units THEN [ok |-> FALSE, raises |-> "KeyError"]
        ELSE [ok |-> TRUE, value |-> (size.num * units[unit]) \div size.den]

-----------------------------------------------------------------------------
(* The namespace object: a function from attribute names to values; an     *)
(* attribute the object does not have is outside its domain.               *)

NoAttributes == [name \in {} |-> None]
hasattr(ns, name) == name \in DOMAIN ns
setattr(ns, name, value) ==
    IF name \in DOMAIN ns THEN [ns EXCEPT ![name] = value]
    ELSE [n \in DOMAIN ns \cup {name} |-> IF n = name THEN value ELSE ns[n]]

(* How a call of a parser ends *)
NotRun == [status |-> "none"]
Returned(ns) == [status |-> "ok", exit |-> 0, result |-> ns]
\* parser.error(): usage and one "error:" line on stderr, exit status 2
ParserError(argument, message) ==
    [status |-> "error", exit |-> 2, argument |-> argument, message |-> message]
\* an exception argparse does not catch: traceback, exit status 1
Uncaught(exception) == [status |-> "exception", exit |-> 1, exception |-> exception]
\* -h / --help: the help text on stdout, exit status 0
HelpShown == [status |-> "help", exit |-> 0]

-----------------------------------------------------------------------------
(* The argparse library as main.py configures it.                          *)
(*                                                                         *)
(* A token that begins with "-" is an option string ('O'), any other token *)
(* an argument ('A').  Positionals are matched against the run of 'A'      *)
(* tokens in front of the next option string; an option takes its nargs    *)
(* from the run of 'A' tokens that follows it.                             *)
(*                                                                         *)
(* Builds: interpreters up to 3.12.6 match a '?' positional against zero   *)
(* tokens as soon as the positional before it is matched ("eager");        *)
(* later ones leave it unmatched while an option string follows            *)
(* ("deferred").  Both are builds the program runs on.                     *)

Builds == {"eager", "deferred"}

AllTokens ==
    {"a", "b", "auto", "manual", "500KB", "1MB", "10B", "5XB", "5g", "default_value",
     "--files", "--required-files", "-v", "--verbose", "-m", "--mode", "-s", "--size",
     "-h", "--help", "-x", "d", "f", "g", "n"}
\* _parse_optional: a token whose first character is the prefix character
OptionStrings == {tok \in AllTokens : Chars(tok)[1] = "-"}
IsOptionString(tok) == tok \in OptionStrings

RECURSIVE RunLen(_, _)
RunLen(args, i) ==
    IF i > Len(args) \/ IsOptionString(args[i]) THEN 0 ELSE 1 + RunLen(args, i + 1)

HasOptionFrom(args, i) == \E j \in i..Len(args) : IsOptionString(args[j])

\* main.py's add_argument calls: option string -> dest
OptionDest(tok) ==
    CASE tok = "--files" -> "files"
      [] tok = "--required-files" -> "required_files"
      [] tok \in {"-v", "--verbose"} -> "verbose"
      [] tok \in {"-m", "--mode"} -> "mode"
      [] tok \in {"-s", "--size"} -> "size"
      [] tok \in {"-h", "--help"} -> "help"
      [] OTHER -> "unrecognized"

choices == {"auto", "manual"}

\* default= of each add_argument call (None where none is given)
Defaults ==
    [source |-> None,
     optional_destination |-> PyStr("default_value"),
     files |-> PyList(<<>>),
     required_files |-> None,
     verbose |-> PyBool(FALSE),
     mode |-> PyStr("auto"),
     size |-> PyStr("1MB")]

\* parse_known_args: a default is stored only for an attribute the namespace lacks
SetDefaults(ns) ==
    [n \in DOMAIN ns \cup DOMAIN Defaults |-> IF hasattr(ns, n) THEN ns[n] ELSE Defaults[n]]

\* The running state of one parse_known_args call
ParseStart(ns) ==
    [i |-> 1, ns |-> SetDefaults(ns), npos |-> 0,
     seen |-> {}, extras |-> <<>>, raised |-> NotRun]

\* type=parse_size through _get_value: ValueError becomes a parser error,
\* any other exception leaves argparse
SizeValue(st, raw) ==
    LET r == parse_size(Chars(raw))
    IN  IF r.ok THEN [st EXCEPT !.ns = setattr(@, "size", PyInt(r.value)),
                                !.seen = @ \cup {"size"}, !.i = @ + 2]
        ELSE IF r.raises = "ValueError"
        THEN [st EXCEPT !.raised = ParserError(<<"-s/--size">>,
                                       <<"invalid parse_size value:", raw>>)]
        ELSE [st EXCEPT !.raised = Uncaught(r.raises)]

\* Mutant of ModeValue: no choices= on the argument
ModeValue_unchecked(st, raw) ==
    [st EXCEPT !.ns = setattr(@, "mode", PyStr(raw)),
               !.seen = @ \cup {"mode"}, !.i = @ + 2]

\* choices= through _check_value
ModeValue(st, raw) ==
    IF raw \in choices
    THEN [st EXCEPT !.ns = setattr(@, "mode", PyStr(raw)),
                    !.seen = @ \cup {"mode"}, !.i = @ + 2]
    ELSE [st EXCEPT !.raised = ParserError(<<"-m/--mode">>,
                                   <<"invalid choice:", raw, "choose from", "auto", "manual">>)]

\* Mutant of StoreVerbose: the flag is flipped instead of set
StoreVerbose_toggle(st) ==
    [st EXCEPT !.ns = setattr(@, "verbose", PyBool(~st.ns["verbose"].bool)),
               !.seen = @ \cup {"verbose"}, !.i = @ + 1]

\* Mutant of StoreRequiredFiles: nargs='*' in place of '+'
StoreRequiredFiles_star(st, values) ==
    [st EXCEPT !.ns = setattr(@, "required_files", PyList(values)),
               !.seen = @ \cup {"required_files"}, !.i = @ + Len(values) + 1]

\* --files (nargs='*'): the values replace whatever the attribute held
StoreFiles(st, values) ==
    [st EXCEPT !.ns = setattr(@, "files", PyList(values)),
               !.seen = @ \cup {"files"}, !.i = @ + Len(values) + 1]

\* --required-files (nargs='+')
StoreRequiredFiles(st, values) ==
    IF values = <<>>
    THEN [st EXCEPT !.raised = ParserError(<<"--required-files">>,
                                   <<"expected at least one argument">>)]
    ELSE [st EXCEPT !.ns = setattr(@, "required_files", PyList(values)),
                    !.seen = @ \cup {"required_files"}, !.i = @ + Len(values) + 1]

\* -v / --verbose (action='store_true')
StoreVerbose(st) ==
    [st EXCEPT !.ns = setattr(@, "verbose", PyBool(TRUE)),
               !.seen = @ \cup {"verbose"}, !.i = @ + 1]

\* An option string and the arguments it takes from the run that follows it
consume_optional(st, args) ==
    LET tok == args[st.i]
        dest == OptionDest(tok)
        n == RunLen(args, st.i + 1)
        values == SubSeq(args, st.i + 1, st.i + n)
    IN  CASE dest = "unrecognized" ->
               [st EXCEPT !.extras = Append(@, tok), !.i = @ + 1]
          [] dest = "help" -> [st EXCEPT !.raised = HelpShown]
          [] dest = "verbose" -> StoreVerbose(st)
          [] dest = "files" -> StoreFiles(st, values)
          [] dest = "required_files" -> StoreRequiredFiles(st, values)
          [] dest = "mode" ->
               IF n = 0
               THEN [st EXCEPT !.raised = ParserError(<<"-m/--mode">>,
                                              <<"expected one argument">>)]
               ELSE ModeValue(st, args[st.i + 1])
          [] dest = "size" ->
               IF n = 0
               THEN [st EXCEPT !.raised = ParserError(<<"-s/--size">>,
                                              <<"expected one argument">>)]
               ELSE SizeValue(st, args[st.i + 1])

\* The positionals source (one token) and optional_destination ('?') matched
\* against the run of arguments at st.i
consume_positionals(bld, st, args) ==
    LET n == RunLen(args, st.i)
        optionFollows == st.i + n <= Len(args)
        i == st.i
    IN  CASE st.npos = 0 /\ n >= 2 ->
               [st EXCEPT !.ns = setattr(setattr(@, "source", PyStr(args[i])),
                                         "optional_destination", PyStr(args[i + 1])),
                          !.seen = @ \cup {"source", "optional_destination"},
                          !.npos = 2, !.i = i + 2]
          [] st.npos = 0 /\ n = 1 ->
               IF bld = "deferred" /\ optionFollows
               THEN [st EXCEPT !.ns = setattr(@, "source", PyStr(args[i])),
                               !.seen = @ \cup {"source"},
                               !.npos = 1, !.i = i + 1]
               ELSE [st EXCEPT !.ns = setattr(setattr(@, "source", PyStr(args[i])),
                                              "optional_destination",
                                              Defaults.optional_destination),
                               !.seen = @ \cup {"source", "optional_destination"},
                               !.npos = 2, !.i = i + 1]
          [] st.npos = 1 /\ n >= 1 ->
               [st EXCEPT !.ns = setattr(@, "optional_destination", PyStr(args[i])),
                          !.seen = @ \cup {"optional_destination"},
                          !.npos = 2, !.i = i + 1]
          [] st.npos = 1 /\ n = 0 /\ ~(bld = "deferred" /\ optionFollows) ->
               [st EXCEPT !.ns = setattr(@, "optional_destination",
                                         Defaults.optional_destination),
                          !.seen = @ \cup {"optional_destination"},
                          !.npos = 2]
          [] OTHER -> st

\* parse_known_args: positionals and options consumed alternately until the
\* last option string is passed; the first error raised ends the call
RECURSIVE ConsumeAll(_, _, _)
ConsumeAll(bld, st, args) ==
    IF st.raised # NotRun THEN st
    ELSE IF ~HasOptionFrom(args, st.i) THEN st
    ELSE LET next == st.i + RunLen(args, st.i)
         IN  IF st.i = next THEN ConsumeAll(bld, consume_optional(st, args), args)
             ELSE LET st2 == consume_positionals(bld, st, args)
                  IN  IF st2.i > st.i THEN ConsumeAll(bld, st2, args)
                      ELSE ConsumeAll(bld,
                               consume_optional(
                                   [st2 EXCEPT !.extras = @ \o SubSeq(args, st.i, next - 1),
                                               !.i = next],
                                   args),
                               args)

\* Mutant of ConvertSizeDefault: the string default is never converted
ConvertSizeDefault_unconverted(ns) == ns

\* After the loop: the remaining positionals, the leftover tokens, the
\* conversion of string defaults still in place, the required arguments,
\* and parse_args' complaint about unrecognized tokens
ConvertSizeDefault(ns) ==
    IF ns["size"] = Defaults.size
    THEN setattr(ns, "size", PyInt(parse_size(Chars(Defaults.size.str)).value))
    ELSE ns

parse_args(bld, ns0, args) ==
    LET st1 == ConsumeAll(bld, ParseStart(ns0), args)
    IN  IF st1.raised # NotRun THEN [ns |-> st1.ns, out |-> st1.raised]
        ELSE LET st2 == consume_positionals(bld, st1, args)
                 extras == st2.extras \o SubSeq(args, st2.i, Len(args))
                 ns == IF "size" \in st2.seen THEN st2.ns ELSE ConvertSizeDefault(st2.ns)
             IN  IF "source" \notin st2.seen
                 THEN [ns |-> ns,
                       out |-> ParserError(<<"source">>,
                                   <<"the following arguments are required:", "source">>)]
                 ELSE IF extras # <<>>
                 THEN [ns |-> ns,
                       out |-> ParserError(extras, <<"unrecognized arguments:">> \o extras)]
                 ELSE [ns |-> ns, out |-> Returned(ns)]

\* main.py setup_parser(): parser.parse_args(namespace=FileProcessorNamespace)
setup_parser(bld, ns, args) == parse_args(bld, ns, args)

-----------------------------------------------------------------------------
(* validators.py: the converters.  os.path.exists is false for "missing",  *)
(* os.path.isfile true for "file" alone, os.path.isdir for "dir" alone;    *)
(* "other" is a path that exists and is neither (a FIFO, a device).        *)

Kinds == {"missing", "file", "dir", "other"}

PyPath(path) == [path |-> path]

\* Mutant of file: the os.path.isfile test is missing
file_exists_only(path, filesystem) ==
    IF filesystem[path] = "missing"
    THEN [ok |-> FALSE, raises |-> "ValueError",
          message |-> <<"Expected file, doesn't exist:", path>>]
    ELSE [ok |-> TRUE, value |-> PyPath(path)]

file(path, filesystem) ==
    IF filesystem[path] = "missing"
    THEN [ok |-> FALSE, raises |-> "ValueError",
          message |-> <<"Expected file, doesn't exist:", path>>]
    ELSE IF filesystem[path] # "file"
    THEN [ok |-> FALSE, raises |-> "ValueError",
          message |-> <<"Expected file, received non-file:", path>>]
    ELSE [ok |-> TRUE, value |-> PyPath(path)]

directory(path, filesystem) ==
    IF filesystem[path] = "missing"
    THEN [ok |-> FALSE, raises |-> "ValueError",
          message |-> <<"Expected directory, doesn't exist:", path>>]
    ELSE IF filesystem[path] # "dir"
    THEN [ok |-> FALSE, raises |-> "ValueError",
          message |-> <<"Expected directory, received non-directory:", path>>]
    ELSE [ok |-> TRUE, value |-> PyPath(path)]

\* _get_value on a converter that raised ValueError: the parser's own text,
\* built from the converter's name and the raw string
InvalidValue(argument, typeName, raw) ==
    ParserError(<<argument>>, <<"invalid", typeName, "value:", raw>>)

\* type=file applied to each string of a nargs='+' argument, in order; the
\* first failure ends the conversion
RECURSIVE ConvertFiles(_, _, _)
ConvertFiles(strings, filesystem, done) ==
    IF strings = <<>> THEN [ok |-> TRUE, value |-> PyList(done)]
    ELSE LET r == file(Head(strings), filesystem)
         IN  IF r.ok THEN ConvertFiles(Tail(strings), filesystem, Append(done, r.value))
             ELSE [ok |-> FALSE, raw |-> Head(strings)]

VDefaults == [source_directory |-> None, files |-> None]

VParseStart ==
    [i |-> 1, ns |-> VDefaults, npos |-> 0, seen |-> {}, extras |-> <<>>,
     raised |-> NotRun]

TakeFiles(st, strings, filesystem) ==
    LET r == ConvertFiles(strings, filesystem, <<>>)
    IN  IF r.ok THEN [st EXCEPT !.ns = setattr(@, "files", r.value),
                                !.seen = @ \cup {"files"},
                                !.npos = 2, !.i = @ + Len(strings)]
        ELSE [st EXCEPT !.raised = InvalidValue("files", "file", r.raw)]

TakeSourceDirectory(st, raw, filesystem) ==
    LET r == directory(raw, filesystem)
    IN  IF r.ok THEN [st EXCEPT !.ns = setattr(@, "source_directory", r.value),
                                !.seen = @ \cup {"source_directory"},
                                !.npos = 1, !.i = @ + 1]
        ELSE [st EXCEPT !.raised = InvalidValue("source_directory", "directory", raw)]

\* The positionals source_directory (one token) and files ('+') matched
\* against the run of arguments at st.i
v_consume_positionals(st, args, filesystem) ==
    LET n == RunLen(args, st.i)
    IN  CASE st.npos = 0 /\ n >= 1 ->
               LET st1 == TakeSourceDirectory(st, args[st.i], filesystem)
               IN  IF st1.raised # NotRun \/ n = 1 THEN st1
                   ELSE TakeFiles(st1, SubSeq(args, st.i + 1, st.i + n - 1), filesystem)
          [] st.npos = 1 /\ n >= 1 ->
               TakeFiles(st, SubSeq(args, st.i, st.i + n - 1), filesystem)
          [] OTHER -> st

v_consume_optional(st, args) ==
    IF OptionDest(args[st.i]) = "help" THEN [st EXCEPT !.raised = HelpShown]
    ELSE [st EXCEPT !.extras = Append(@, args[st.i]), !.i = @ + 1]

RECURSIVE VConsumeAll(_, _, _)
VConsumeAll(st, args, filesystem) ==
    IF st.raised # NotRun THEN st
    ELSE IF ~HasOptionFrom(args, st.i) THEN st
    ELSE LET next == st.i + RunLen(args, st.i)
         IN  IF st.i = next THEN VConsumeAll(v_consume_optional(st, args), args, filesystem)
             ELSE LET st2 == v_consume_positionals(st, args, filesystem)
                  IN  IF st2.raised # NotRun THEN st2
                      ELSE IF st2.i > st.i THEN VConsumeAll(st2, args, filesystem)
                      ELSE VConsumeAll(
                               v_consume_optional(
                                   [st2 EXCEPT !.extras = @ \o SubSeq(args, st.i, next - 1),
                                               !.i = next],
                                   args),
                               args, filesystem)

\* validators.py setup_parser(): parser.parse_args() into a fresh Namespace
validators_setup_parser(args, filesystem) ==
    LET st1 == VConsumeAll(VParseStart, args, filesystem)
    IN  IF st1.raised # NotRun THEN st1.raised
        ELSE LET st2 == v_consume_positionals(st1, args, filesystem)
                 extras == st2.extras \o SubSeq(args, st2.i, Len(args))
                 missing == SelectSeq(<<"source_directory", "files">>,
                                      LAMBDA d : d \notin st2.seen)
             IN  IF st2.raised # NotRun THEN st2.raised
                 ELSE IF missing # <<>>
                 THEN ParserError(missing,
                          <<"the following arguments are required:">> \o missing)
                 ELSE IF extras # <<>>
                 THEN ParserError(extras, <<"unrecognized arguments:">> \o extras)
                 ELSE Returned(st2.ns)

-----------------------------------------------------------------------------
(* Inputs *)

\* one invocation of main.py
Tokens == {"a", "b", "manual", "auto", "500KB", "10B", "--files",
           "--required-files", "-v", "-m", "-s", "-x", "-h"}
Argvs == SeqsUpTo(Tokens, MaxLen)

\* repeated calls of setup_parser() in one process
CallTokens == {"a", "-v", "--files", "-m"}
CallArgvs == SeqsUpTo(CallTokens, MaxCallLen)

\* strings given to parse_size; the model's integers are 32 bits wide, so a
\* string whose digits times its unit does not fit is left out
SizeChars == {"0", "1", "5", ".", " ", "K", "M", "G", "B", "k", "b"}
MaxInt == 1024 * 1024 * 1024 - 1 + 1024 * 1024 * 1024
Representable(s) ==
    LET size == float(strip(AllButLastTwo(s)))
        unit == upper(LastTwo(s))
    IN  (size.ok /\ unit \in DOMAIN units) => size.num <= MaxInt \div units[unit]
SizeStrings == {s \in SeqsUpTo(SizeChars, MaxSizeLen) : Representable(s)}

\* validators.py
Paths == {"d", "f", "n"}
VTokens == Paths \cup {"-x", "-h"}
VArgvs == SeqsUpTo(VTokens, MaxVLen)
Filesystems == [Paths -> Kinds]

-----------------------------------------------------------------------------
(* Processes *)

NoFilesystem == [p \in Paths |-> "missing"]

InitMain ==
    /\ argv = <<>>
    /\ FileProcessorNamespace = NoAttributes
    /\ pargs = NotRun
    /\ repeated = FALSE

InitOther ==
    /\ size_str = <<>>
    /\ size_out = NotRun
    /\ fs = NoFilesystem
    /\ vargv = <<>>
    /\ vpargs = NotRun

Init ==
    /\ build \in Builds
    /\ InitMain
    /\ InitOther

\* python main.py <args>: main() calls setup_parser() once
main ==
    /\ pargs = NotRun
    /\ \E args \in Argvs :
         LET r == setup_parser(build, FileProcessorNamespace, args)
         IN  /\ argv' = args
             /\ FileProcessorNamespace' = r.ns
             /\ pargs' = r.out
    /\ UNCHANGED <<build, repeated, size_str, size_out, fs, vargv, vpargs>>

Next == main

Spec == Init /\ [][Next]_vars

\* setup_parser() called again and again in one process (an importing
\* program, a test), each time with its own sys.argv
setup_parser_call ==
    /\ \E args \in CallArgvs :
         LET r == setup_parser(build, FileProcessorNamespace, args)
         IN  /\ argv' = args
             /\ FileProcessorNamespace' = r.ns
             /\ pargs' = r.out
             /\ repeated' = (pargs # NotRun /\ args = argv)
    /\ UNCHANGED <<build, size_str, size_out, fs, vargv, vpargs>>

NextCalls == setup_parser_call

SpecCalls == Init /\ [][NextCalls]_vars

\* parse_size called on a string
parse_size_call ==
    /\ size_out = NotRun
    /\ \E s \in SizeStrings :
         /\ size_str' = s
         /\ size_out' = parse_size(s)
    /\ UNCHANGED <<build, argv, FileProcessorNamespace, pargs, repeated,
                   fs, vargv, vpargs>>

NextSize == parse_size_call

SpecSize == Init /\ [][NextSize]_vars

\* python validators.py <args> on a filesystem
InitV ==
    /\ build \in Builds
    /\ InitMain
    /\ size_str = <<>>
    /\ size_out = NotRun
    /\ fs \in Filesystems
    /\ vargv = <<>>
    /\ vpargs = NotRun

validators_main ==
    /\ vpargs = NotRun
    /\ \E args \in VArgvs :
         /\ vargv' = args
         /\ vpargs' = validators_setup_parser(args, fs)
    /\ UNCHANGED <<build, argv, FileProcessorNamespace, pargs, repeated,
                   size_str, size_out, fs>>

NextV == validators_main

SpecV == InitV /\ [][NextV]_vars

-----------------------------------------------------------------------------
(* Properties *)

Range(f) == {f[i] : i \in DOMAIN f}

\* The parse of main.py's command line reaches token i with no error raised
\* and no help requested by the tokens before it
ReachedCleanly(i) ==
    ConsumeAll(build, ParseStart(NoAttributes), SubSeq(argv, 1, i - 1)).raised = NotRun

\* The tokens of a command line that no option takes as its value
RECURSIVE PositionalTokens(_, _)
PositionalTokens(args, i) ==
    IF i > Len(args) THEN <<>>
    ELSE LET dest == OptionDest(args[i])
             n == RunLen(args, i + 1)
         IN  IF ~IsOptionString(args[i]) THEN <<args[i]>> \o PositionalTokens(args, i + 1)
             ELSE IF dest \in {"files", "required_files"} THEN PositionalTokens(args, i + n + 1)
             ELSE IF dest \in {"mode", "size"} /\ n >= 1 THEN PositionalTokens(args, i + 2)
             ELSE PositionalTokens(args, i + 1)

\* C1: a command line of exactly one positional token parses, with source that
\* token, optional_destination "default_value", files empty, verbose false,
\* mode "auto" and size 1048576 (the default "1MB" converted by parse_size).
C1_OnlySource ==
    (pargs # NotRun /\ Len(argv) = 1 /\ ~IsOptionString(argv[1])) =>
        /\ pargs.status = "ok"
        /\ pargs.result["source"] = PyStr(argv[1])
        /\ pargs.result["optional_destination"] = PyStr("default_value")
        /\ pargs.result["files"] = PyList(<<>>)
        /\ pargs.result["verbose"] = PyBool(FALSE)
        /\ pargs.result["mode"] = PyStr("auto")
        /\ pargs.result["size"] = PyInt(1048576)

C1_Witness ==
    /\ argv = <<"a">>
    /\ pargs.status = "ok"
    /\ pargs.result["size"] = PyInt(1048576)

\* C2: parse_size maps every string of a non-negative magnitude followed by
\* one of the units B, KB, MB, GB, in any letter case, to magnitude times the
\* unit's factor; a magnitude followed by B alone gives the magnitude.
C2_DeclaredUnits ==
    size_out # NotRun =>
        \A k \in 1..(Len(size_str) - 1) :
            LET magnitude == SubSeq(size_str, 1, k)
                unit == upper(SubSeq(size_str, k + 1, Len(size_str)))
            IN  ((\A j \in 1..k : magnitude[j] \in Digits) /\ unit \in DOMAIN units) =>
                    size_out = [ok |-> TRUE,
                                value |-> DigitsValue(magnitude) * units[unit]]

\* C3: every failure of main.py is a parser error (nonzero exit, one error
\* line naming the offending argument), never an uncaught exception; a --size
\* value whose last two characters are no declared unit is such an error.
C3_FailuresAreParserErrors ==
    /\ pargs.status # "exception"
    /\ pargs.status = "error" => (pargs.exit # 0 /\ pargs.argument # <<>>)
    /\ \A i \in 1..(Len(argv) - 1) :
           ( /\ pargs # NotRun
             /\ OptionDest(argv[i]) = "size"
             /\ ~IsOptionString(argv[i + 1])
             /\ upper(LastTwo(Chars(argv[i + 1]))) \notin DOMAIN units
             /\ ReachedCleanly(i) ) =>
               pargs = ParserError(<<"-s/--size">>,
                           <<"invalid parse_size value:", argv[i + 1]>>)

\* C4: parsing is stateless across calls: whatever calls came before, a call
\* gives the outcome the same tokens give as the first call of a process.
C4_Stateless ==
    pargs # NotRun => pargs = setup_parser(build, NoAttributes, argv).out

C6_ConverterMessageShown ==
    (vpargs.status = "error" /\ vpargs.message[1] = "invalid") =>
        LET raw == vpargs.message[4]
            r == IF vpargs.argument = <<"files">> THEN file(raw, fs)
                 ELSE directory(raw, fs)
        IN  r.message[1] \in Range(vpargs.message)

C8_RequiredFiles ==
    pargs # NotRun =>
        /\ (\A i \in 1..Len(argv) : argv[i] # "--required-files") =>
              /\ pargs.status = "ok" => pargs.result["required_files"] = None
              /\ pargs.status = "error" =>
                    Range(pargs.argument) \cap {"required_files", "--required-files"} = {}
        /\ \A i \in 1..Len(argv) :
              (argv[i] = "--required-files" /\ RunLen(argv, i + 1) = 0 /\ ReachedCleanly(i)) =>
                  pargs = ParserError(<<"--required-files">>,
                              <<"expected at least one argument">>)
        /\ (pargs.status = "ok" /\ \E i \in 1..Len(argv) : argv[i] = "--required-files") =>
              /\ pargs.result["required_files"] # None
              /\ Len(pargs.result["required_files"].list) >= 1

C8_Witness ==
    /\ pargs.status = "ok"
    /\ \E i \in 1..Len(argv) : argv[i] = "--required-files"
    /\ pargs.result["required_files"] # None

C10_DeclarationOrder ==
    pargs # NotRun =>
        LET P == PositionalTokens(argv, 1)
            unexpected == pargs.status = "error" /\ pargs.message[1] = "unrecognized arguments:"
        IN  /\ pargs.status = "ok" =>
                  /\ Len(P) \in {1, 2}
                  /\ pargs.result["source"] = PyStr(P[1])
                  /\ pargs.result["optional_destination"] =
                         IF Len(P) = 2 THEN PyStr(P[2]) ELSE PyStr("default_value")
            /\ Len(P) >= 3 =>
                  /\ pargs.status # "ok"
                  /\ unexpected => P[3] \in Range(pargs.argument)
            /\ Len(P) <= 2 =>
                  ~(unexpected /\ \E t \in Range(pargs.argument) : ~IsOptionString(t))
            /\ pargs.status = "ok" =>
                  \A i \in 1..Len(argv) :
                      ( /\ argv[i] = "--files"
                        /\ \A j \in (i + 1)..Len(argv) : argv[j] # "--files" ) =>
                          pargs.result["files"] =
                              PyList(SubSeq(argv, i + 1, i + RunLen(argv, i + 1)))

====
